---- MODULE Spec2Model ----
(***************************************************************************)
(* git-istage: the interactive stage/unstage front-end of src/main.go      *)
(* (the revision with the scrollable diff viewer, lines 184-478).          *)
(*                                                                         *)
(* The program is one process: main() loads the changed files, then the    *)
(* bubbletea event loop feeds one message at a time to model.Update and    *)
(* renders model.View after each of them.                                  *)
(***************************************************************************)
EXTENDS Integers, Sequences, FiniteSets, TLC

VARIABLES
  pc,              \* "start" (main not run yet), "loop" (event loop alive),
                   \* "quit" (tea.Quit returned, its QuitMsg not handled yet), "exit"
  exitCode,        \* process exit code once pc = "exit", -1 before
  stdout,          \* what main printed: "", "error", "nochanges", "runerror"
  statusOut,       \* input: `git status --porcelain` output, split at "\n"
  env,             \* input: the terminal heights and diff sizes of this run, and
                   \* whether messages may overtake the QuitMsg
  files,           \* model.files
  cursor,          \* model.cursor
  quitting,        \* model.quitting
  diffMode,        \* model.diffMode
  diffContent,     \* model.diffContent
  scrollOffset,    \* model.scrollOffset
  viewportHeight,  \* model.viewportHeight
  repoLast,        \* per entry: the last mutating git command that really ran on it
  msg,             \* the last message the event loop took
  ran              \* the external commands the last step invoked, with their results

vars == <<pc, exitCode, stdout, statusOut, env, files, cursor, quitting, diffMode,
          diffContent, scrollOffset, viewportHeight, repoLast, msg, ran>>

(***************************************************************************)
(* Bounds of the model.                                                    *)
(***************************************************************************)
\* longest status output (in lines that carry an entry) the main inputs hold
MaxFiles == 2
\* most stage/unstage commands that exit with a failure in one run
MaxFailures == 1

(***************************************************************************)
(* StagingStatus                                                           *)
(***************************************************************************)
Unstaged == "Unstaged"
Staged == "Staged"
PartiallyStaged == "PartiallyStaged"

(***************************************************************************)
(* exec.Command and exec.Cmd.Run.  A Cmd is built once and remembers that  *)
(* it was started: state is "new", "exit0" or "exit1".                     *)
(***************************************************************************)
Command(args) == [args |-> args, state |-> "new"]

GitAdd(filename) == Command(<<"git", "add", filename>>)
GitRmCached(filename) == Command(<<"git", "rm", "--cached", filename>>)
GitRestoreStaged(filename) == Command(<<"git", "restore", "--staged", filename>>)

\* Run of cmd when the process, once started, exits with `ok`.  A Cmd that was
\* started before is not started again: Run returns "exec: already started".
RunResult(cmd, ok) ==
  IF cmd.state # "new" THEN "already started"
  ELSE IF ok THEN "exit0" ELSE "exit1"

RunCmd(cmd, ok) ==
  IF cmd.state # "new" THEN cmd
  ELSE [cmd EXCEPT !.state = RunResult(cmd, ok)]

(***************************************************************************)
(* interpretGitStatus                                                      *)
(***************************************************************************)
\* mutant: the generic "both sides changed" case is tried before 'A' + change
interpretGitStatusGenericFirst(xy, filename) ==
  LET x == xy[1]
      y == xy[2]
  IN  IF x = "?" /\ y = "?" THEN
        [status |-> Unstaged, stageCmd |-> GitAdd(filename),
         unstageCmd |-> GitRmCached(filename)]
      ELSE IF x # " " /\ y # " " THEN
        [status |-> PartiallyStaged, stageCmd |-> GitAdd(filename),
         unstageCmd |-> GitRestoreStaged(filename)]
      ELSE IF x = "A" THEN
        [status |-> Staged, stageCmd |-> GitAdd(filename),
         unstageCmd |-> GitRmCached(filename)]
      ELSE IF x # " " THEN
        [status |-> Staged, stageCmd |-> GitAdd(filename),
         unstageCmd |-> GitRestoreStaged(filename)]
      ELSE
        [status |-> Unstaged, stageCmd |-> GitAdd(filename),
         unstageCmd |-> GitRestoreStaged(filename)]

interpretGitStatus(xy, filename) ==
  LET x == xy[1]
      y == xy[2]
  IN  IF x = "?" /\ y = "?" THEN
        [status |-> Unstaged, stageCmd |-> GitAdd(filename),
         unstageCmd |-> GitRmCached(filename)]
      ELSE IF x = "A" /\ y # " " THEN
        [status |-> PartiallyStaged, stageCmd |-> GitAdd(filename),
         unstageCmd |-> GitRmCached(filename)]
      ELSE IF x # " " /\ y # " " THEN
        [status |-> PartiallyStaged, stageCmd |-> GitAdd(filename),
         unstageCmd |-> GitRestoreStaged(filename)]
      ELSE IF x = "A" THEN
        [status |-> Staged, stageCmd |-> GitAdd(filename),
         unstageCmd |-> GitRmCached(filename)]
      ELSE IF x # " " THEN
        [status |-> Staged, stageCmd |-> GitAdd(filename),
         unstageCmd |-> GitRestoreStaged(filename)]
      ELSE
        [status |-> Unstaged, stageCmd |-> GitAdd(filename),
         unstageCmd |-> GitRestoreStaged(filename)]

(***************************************************************************)
(* strings.TrimSpace on a sequence of characters.  The first three         *)
(* characters of a status line are ASCII, so the byte indices of line[:2]  *)
(* and line[3:] are character indices.                                     *)
(***************************************************************************)
\* The characters strings.TrimSpace cuts: Unicode's White_Space, as
\* unicode.IsSpace has it.  In the first row: tab, line feed, vertical tab,
\* form feed, carriage return, space, U+0085 (next line), U+00A0 (no-break
\* space), each as the character itself.  A character above U+00FF is written
\* as the name of its code point.
WhiteSpace ==
  { "\t", "\n", "", "\f", "\r", " ", "", " ",
    "U+1680", "U+2000", "U+2001", "U+2002", "U+2003", "U+2004",
    "U+2005", "U+2006", "U+2007", "U+2008", "U+2009", "U+200A",
    "U+2028", "U+2029", "U+202F", "U+205F", "U+3000" }

IsSpace(c) == c \in WhiteSpace

RECURSIVE TrimLeft(_)
TrimLeft(s) ==
  IF s = <<>> THEN <<>>
  ELSE IF IsSpace(Head(s)) THEN TrimLeft(Tail(s)) ELSE s

RECURSIVE TrimRight(_)
TrimRight(s) ==
  IF s = <<>> THEN <<>>
  ELSE IF IsSpace(s[Len(s)]) THEN TrimRight(SubSeq(s, 1, Len(s) - 1)) ELSE s

TrimSpace(s) == TrimRight(TrimLeft(s))

(***************************************************************************)
(* getGitChanges: the loop over the lines of the status output             *)
(***************************************************************************)
\* mutant: the status is sliced one character late, line[1:3]
fileEntryStatusShifted(line) ==
  LET filename == TrimSpace(SubSeq(line, 4, Len(line)))
      r == interpretGitStatus(SubSeq(line, 2, 3), filename)
  IN  [name |-> filename, status |-> r.status,
       stageCmd |-> r.stageCmd, unstageCmd |-> r.unstageCmd]

fileEntry(line) ==
  LET filename == TrimSpace(SubSeq(line, 4, Len(line)))
      r == interpretGitStatus(SubSeq(line, 1, 2), filename)
  IN  [name |-> filename, status |-> r.status,
       stageCmd |-> r.stageCmd, unstageCmd |-> r.unstageCmd]

RECURSIVE getGitChanges(_)
getGitChanges(lines) ==
  IF lines = <<>> THEN <<>>
  ELSE IF Len(Head(lines)) < 4 THEN getGitChanges(Tail(lines))
  ELSE <<fileEntry(Head(lines))>> \o getGitChanges(Tail(lines))

(***************************************************************************)
(* getDiff: the comparison follows the entry's status; a failing diff      *)
(* command yields the one-line failure message instead of its output.      *)
(* A diff text is kept as what produced it and the number of "\n" in it.   *)
(***************************************************************************)
NoDiff == [text |-> <<>>, nl |-> 0]

DiffArgs(f) ==
  CASE f.status = Staged -> <<"git", "d", "--staged", f.name>>
    [] f.status = Unstaged -> <<"git", "d", f.name>>
    [] f.status = PartiallyStaged -> <<"git", "d", "HEAD", f.name>>

getDiff(f, ok) ==
  IF ok THEN [text |-> DiffArgs(f), nl |-> env.diffNl[f.status]]
  ELSE [text |-> <<"Failed to show diff">>, nl |-> 0]

(***************************************************************************)
(* The model value and the helpers of Update                               *)
(***************************************************************************)
M == [files |-> files, cursor |-> cursor, quitting |-> quitting,
      diffMode |-> diffMode, diffContent |-> diffContent,
      scrollOffset |-> scrollOffset, viewportHeight |-> viewportHeight]

\* len(strings.Split(s, "\n")): one more than the number of separators
SplitLen(d) == d.nl + 1

getMaxScroll(m) ==
  LET lines == SplitLen(m.diffContent)
  IN  IF lines > m.viewportHeight THEN lines - m.viewportHeight ELSE 0

\* the cursor as an index of the 1-based sequence files is cursor + 1
moveCursorUp(m) ==
  IF m.cursor > 0
    THEN [m EXCEPT !.cursor = m.cursor - 1, !.scrollOffset = 0]
    ELSE m

\* moveCursorDown with the bound off by one: the cursor may step past the
\* last entry
moveCursorDownPastEnd(m) ==
  IF m.cursor < Len(m.files)
    THEN [m EXCEPT !.cursor = m.cursor + 1, !.scrollOffset = 0]
    ELSE m

moveCursorDown(m) ==
  IF m.cursor < Len(m.files) - 1
    THEN [m EXCEPT !.cursor = m.cursor + 1, !.scrollOffset = 0]
    ELSE m

\* Go's integer division truncates toward zero
GoDiv(a, b) == IF a >= 0 THEN a \div b ELSE -((-a) \div b)

(***************************************************************************)
(* Update, one operator per key of the switch                              *)
(***************************************************************************)
OnUp(m) ==
  IF m.diffMode
    THEN IF m.scrollOffset > 0
           THEN [m EXCEPT !.scrollOffset = m.scrollOffset - 1]
           ELSE moveCursorUp(m)
    ELSE moveCursorUp(m)

\* mutant: "down" scrolls without looking at getMaxScroll
OnDownUnbounded(m) ==
  IF m.diffMode
    THEN [m EXCEPT !.scrollOffset = m.scrollOffset + 1]
    ELSE moveCursorDown(m)

OnDown(m) ==
  IF m.diffMode
    THEN IF m.scrollOffset < getMaxScroll(m)
           THEN [m EXCEPT !.scrollOffset = m.scrollOffset + 1]
           ELSE moveCursorDown(m)
    ELSE moveCursorDown(m)

\* mutant: page-down moves by a whole viewport
OnPgDownWhole(m) ==
  IF m.diffMode
    THEN LET maxScroll == getMaxScroll(m)
             newScrollOffset == m.scrollOffset + m.viewportHeight
         IN  [m EXCEPT !.scrollOffset =
                IF newScrollOffset > maxScroll THEN maxScroll ELSE newScrollOffset]
    ELSE m

OnPgDown(m) ==
  IF m.diffMode
    THEN LET maxScroll == getMaxScroll(m)
             newScrollOffset == m.scrollOffset + GoDiv(m.viewportHeight, 2)
         IN  [m EXCEPT !.scrollOffset =
                IF newScrollOffset > maxScroll THEN maxScroll ELSE newScrollOffset]
    ELSE m

OnPgUp(m) ==
  IF m.diffMode
    THEN LET newScrollOffset == m.scrollOffset - GoDiv(m.viewportHeight, 2)
         IN  [m EXCEPT !.scrollOffset =
                IF newScrollOffset < 0 THEN 0 ELSE newScrollOffset]
    ELSE m

\* the command the toggle key runs on entry f
ToggleCmd(f) == IF f.status = Staged THEN f.unstageCmd ELSE f.stageCmd

\* mutant: the second case of the switch names Unstaged only
ToggleEntryUnstagedOnly(f, ok) ==
  IF f.status = Staged
    THEN [f EXCEPT !.unstageCmd = RunCmd(f.unstageCmd, ok), !.status = Unstaged]
    ELSE IF f.status = Unstaged
      THEN [f EXCEPT !.stageCmd = RunCmd(f.stageCmd, ok), !.status = Staged]
      ELSE f

\* mutant: the status is flipped only when Run returned no error
ToggleEntryChecked(f, ok) ==
  IF f.status = Staged
    THEN [f EXCEPT !.unstageCmd = RunCmd(f.unstageCmd, ok),
                   !.status = IF RunResult(f.unstageCmd, ok) = "exit0"
                                THEN Unstaged ELSE Staged]
    ELSE [f EXCEPT !.stageCmd = RunCmd(f.stageCmd, ok),
                   !.status = IF RunResult(f.stageCmd, ok) = "exit0"
                                THEN Staged ELSE f.status]

ToggleEntry(f, ok) ==
  IF f.status = Staged
    THEN [f EXCEPT !.unstageCmd = RunCmd(f.unstageCmd, ok), !.status = Unstaged]
    ELSE [f EXCEPT !.stageCmd = RunCmd(f.stageCmd, ok), !.status = Staged]

\* " " without the diff-mode return: the toggle works in the diff view too
OnSpaceAnyMode(m, ok) ==
  [m EXCEPT !.files[m.cursor + 1] = ToggleEntry(m.files[m.cursor + 1], ok)]

\* " " that toggles the first entry, wherever the cursor is
OnSpaceFirstEntry(m, ok) ==
  IF m.diffMode THEN m
  ELSE [m EXCEPT !.files[1] = ToggleEntry(m.files[1], ok)]

\* " " that runs the command of every entry, not only the one under the cursor
OnSpaceEveryEntry(m, ok) ==
  IF m.diffMode THEN m
  ELSE [m EXCEPT !.files = [i \in 1..Len(m.files) |-> ToggleEntry(m.files[i], ok)]]

OnSpace(m, ok) ==
  IF m.diffMode THEN m
  ELSE [m EXCEPT !.files[m.cursor + 1] = ToggleEntry(m.files[m.cursor + 1], ok)]

OnD(m) == [m EXCEPT !.diffMode = ~m.diffMode]

OnTop(m) == IF m.diffMode THEN [m EXCEPT !.scrollOffset = 0] ELSE m

OnBottom(m) == IF m.diffMode THEN [m EXCEPT !.scrollOffset = getMaxScroll(m)] ELSE m

\* the resize without the footer line
OnWindowSizeNoFooter(m, height) ==
  [m EXCEPT !.viewportHeight = height - Len(m.files)]

OnWindowSize(m, height) ==
  [m EXCEPT !.viewportHeight = height - Len(m.files) - 1]

\* the refresh as a cache: the diff is fetched only while none is held
RefreshOnce(m, ok) ==
  IF m.diffMode /\ m.diffContent = NoDiff
    THEN [m EXCEPT !.diffContent = getDiff(m.files[m.cursor + 1], ok)]
    ELSE m

\* the tail of the KeyMsg case: in diff mode the diff is fetched again
Refresh(m, ok) ==
  IF m.diffMode
    THEN [m EXCEPT !.diffContent = getDiff(m.files[m.cursor + 1], ok)]
    ELSE m

(***************************************************************************)
(* View.  In diff mode it slices lines[scrollOffset:end]; Go panics when   *)
(* the bounds are not 0 <= scrollOffset <= end <= len(lines).              *)
(***************************************************************************)
ViewEnd(m) ==
  LET end == m.scrollOffset + m.viewportHeight
  IN  IF end > SplitLen(m.diffContent) THEN SplitLen(m.diffContent) ELSE end

ViewPanics(m) ==
  /\ ~m.quitting
  /\ m.diffMode
  /\ ~(0 <= m.scrollOffset /\ m.scrollOffset <= ViewEnd(m))

\* View with the quitting test after the diff branch: the empty frame only
\* from the list
ViewQuitOnList(m) ==
  IF m.diffMode
    THEN IF ViewPanics(m) THEN <<"panic">>
         ELSE <<"diff", m.diffContent.text, m.scrollOffset, ViewEnd(m),
                SplitLen(m.diffContent)>>
    ELSE IF m.quitting THEN <<>>
    ELSE <<"list", m.cursor, [i \in 1..Len(m.files) |-> m.files[i].status]>>

View(m) ==
  IF m.quitting THEN <<>>
  ELSE IF m.diffMode
    THEN IF ViewPanics(m) THEN <<"panic">>
         ELSE <<"diff", m.diffContent.text, m.scrollOffset, ViewEnd(m),
                SplitLen(m.diffContent)>>
    ELSE <<"list", m.cursor, [i \in 1..Len(m.files) |-> m.files[i].status]>>

(***************************************************************************)
(* Inputs.  A status line is the sequence of its characters: two status    *)
(* characters, a space, the path.  The output of `git status --porcelain`  *)
(* ends with "\n", so its split ends with an empty line.                   *)
(***************************************************************************)
Line(x, y, path) == <<x, y, " ">> \o path

\* two working trees, as listings of their changed paths
Listings ==
  { << Line(" ", "M", <<"a">>), Line("A", "M", <<"b">>), Line("M", " ", <<"c">>),
       Line("?", "?", <<"d">>) >>,
    << Line("A", " ", <<"e", " ">>), <<"M", " ", " ">>, Line("M", "M", <<"f">>) >> }

\* the first lines of a listing that carry at most n entries
RECURSIVE Prefix(_, _)
Prefix(lines, n) ==
  IF lines = <<>> THEN <<>>
  ELSE IF Len(Head(lines)) < 4 THEN <<Head(lines)>> \o Prefix(Tail(lines), n)
  ELSE IF n = 0 THEN <<>>
  ELSE <<Head(lines)>> \o Prefix(Tail(lines), n - 1)

StatusOutputs ==
  { Prefix(l, n) \o << <<>> >> : l \in Listings, n \in 0..MaxFiles }

\* terminal heights the window takes, and the "\n" count of each kind of diff
Envs ==
  { [heights |-> {2, 6},
     diffNl |-> (Unstaged :> 2 @@ Staged :> 4 @@ PartiallyStaged :> 1),
     drain |-> FALSE] }

\* the status characters and the codes made of them; git prints no "  " line
StatusChars == {" ", "?", "A", "M", "D", "R", "U"}

Codes == (StatusChars \X StatusChars) \ {<<" ", " ">>}

\* the four status lines of the end-to-end scenario
Fixture ==
  << <<"?", "?", " ", "n", "e", "w", "f", "i", "l", "e", ".", "t", "x", "t">>,
     <<" ", "M", " ", "c", "h", "a", "n", "g", "e", "d", ".", "t", "x", "t">>,
     <<"A", " ", " ", "a", "d", "d", "e", "d", ".", "t", "x", "t">>,
     <<"A", "M", " ", "a", "d", "d", "e", "d", "m", "o", "d", ".", "t", "x", "t">>,
     <<>> >>

FixtureNames ==
  << <<"n", "e", "w", "f", "i", "l", "e", ".", "t", "x", "t">>,
     <<"c", "h", "a", "n", "g", "e", "d", ".", "t", "x", "t">>,
     <<"a", "d", "d", "e", "d", ".", "t", "x", "t">>,
     <<"a", "d", "d", "e", "d", "m", "o", "d", ".", "t", "x", "t">> >>

\* every code on a line of its own, a path between two of each white space
\* character a line can hold (the output is split at "\n", so no line holds
\* one), the scenario, and the listings above
LoadOutputs ==
  { << Line(c[1], c[2], <<"p">>), <<>> >> : c \in Codes }
    \cup { << Line("?", "?", <<c, "n", " ", "b", c>>), <<>> >> :
             c \in WhiteSpace \ {"\n"} }
    \cup {Fixture} \cup StatusOutputs

\* one changed path whose diff is longer than a tall window
PageOutputs == { << Line(" ", "M", <<"a">>), <<>> >> }

PageEnvs ==
  { [heights |-> {4, 22},
     diffNl |-> (Unstaged :> 34 @@ Staged :> 3 @@ PartiallyStaged :> 1),
     drain |-> FALSE] }

\* one changed path, in a run where keys typed after "q" reach Update before
\* the QuitMsg does
QuitOutputs ==
  { << Line("A", "M", <<"b">>), <<>> >>, << Line("M", " ", <<"c">>), <<>> >> }

QuitEnvs ==
  { [heights |-> {2, 6},
     diffNl |-> (Unstaged :> 2 @@ Staged :> 4 @@ PartiallyStaged :> 1),
     drain |-> TRUE] }

(***************************************************************************)
(* The process                                                             *)
(***************************************************************************)
InitWith(outputs, envs) ==
  /\ pc = "start"
  /\ exitCode = -1
  /\ stdout = ""
  /\ statusOut \in outputs
  /\ env \in envs
  /\ files = <<>>
  /\ cursor = 0
  /\ quitting = FALSE
  /\ diffMode = FALSE
  /\ diffContent = NoDiff
  /\ scrollOffset = 0
  /\ viewportHeight = 0
  /\ repoLast = <<>>
  /\ msg = "none"
  /\ ran = <<>>

Init == InitWith(StatusOutputs, Envs)

Exit(code, out) ==
  /\ pc' = "exit"
  /\ exitCode' = code
  /\ stdout' = out

\* main without the "len(files) == 0" return: the program starts on no entry
MainNoEmptyCheck ==
  /\ pc = "start"
  /\ \E checkOk \in BOOLEAN, statusOk \in BOOLEAN :
       LET loaded == getGitChanges(statusOut)
       IN  IF ~checkOk \/ ~statusOk THEN
             /\ Exit(1, "error")
             /\ ran' = IF checkOk THEN <<"rev-parse", "status">> ELSE <<"rev-parse">>
             /\ UNCHANGED <<files, repoLast>>
           ELSE
             /\ pc' = "loop"
             /\ files' = loaded
             /\ repoLast' = [i \in 1..Len(loaded) |-> "none"]
             /\ ran' = <<"rev-parse", "status">>
             /\ UNCHANGED <<exitCode, stdout>>
  /\ msg' = "none"
  /\ UNCHANGED <<statusOut, env, cursor, quitting, diffMode, diffContent,
                 scrollOffset, viewportHeight>>

\* main: getGitChanges, then the program starts on model{files: files}
Main ==
  /\ pc = "start"
  /\ \E checkOk \in BOOLEAN, statusOk \in BOOLEAN :
       LET loaded == getGitChanges(statusOut)
       IN  IF ~checkOk \/ ~statusOk THEN
             /\ Exit(1, "error")
             /\ ran' = IF checkOk THEN <<"rev-parse", "status">> ELSE <<"rev-parse">>
             /\ UNCHANGED <<files, repoLast>>
           ELSE IF Len(loaded) = 0 THEN
             /\ Exit(0, "nochanges")
             /\ ran' = <<"rev-parse", "status">>
             /\ UNCHANGED <<files, repoLast>>
           ELSE
             /\ pc' = "loop"
             /\ files' = loaded
             /\ repoLast' = [i \in 1..Len(loaded) |-> "none"]
             /\ ran' = <<"rev-parse", "status">>
             /\ UNCHANGED <<exitCode, stdout>>
  /\ msg' = "none"
  /\ UNCHANGED <<statusOut, env, cursor, quitting, diffMode, diffContent,
                 scrollOffset, viewportHeight>>

\* The model Update returned becomes the program's model and is rendered.  A
\* panic in View ends Program.Run: with an error (main prints it and exits 1)
\* or, in bubbletea releases that only recover and restore the terminal, with
\* none (main returns, exit 0).
Render(m) ==
  /\ files' = m.files
  /\ cursor' = m.cursor
  /\ quitting' = m.quitting
  /\ diffMode' = m.diffMode
  /\ diffContent' = m.diffContent
  /\ scrollOffset' = m.scrollOffset
  /\ viewportHeight' = m.viewportHeight
  /\ IF ViewPanics(m)
       THEN \E code \in {0, 1} : Exit(code, IF code = 1 THEN "runerror" ELSE "")
       ELSE UNCHANGED <<pc, exitCode, stdout>>
  /\ UNCHANGED <<statusOut, env>>

\* Update is called for a message: the loop is alive, or tea.Quit was returned
\* and the message got into the loop's channel before the QuitMsg
Running == pc = "loop" \/ (pc = "quit" /\ env.drain)

\* a key that is not "q", " " or a resize: the switch, then the diff refresh
Key(k, m) ==
  /\ Running
  /\ msg' = k
  /\ \E diffOk \in BOOLEAN :
       /\ Render(Refresh(m, diffOk))
       /\ ran' = IF m.diffMode
                   THEN <<[args |-> DiffArgs(m.files[m.cursor + 1]),
                           result |-> IF diffOk THEN "exit0" ELSE "exit1"]>>
                   ELSE <<>>
  /\ UNCHANGED repoLast

KeyUp == Key("up", OnUp(M))

KeyDown == Key("down", OnDown(M))

KeyPgDown == Key("pgdown", OnPgDown(M))

KeyPgUp == Key("pgup", OnPgUp(M))

KeyD == Key("d", OnD(M))

KeyTop == Key("g", OnTop(M))

KeyBottom == Key("G", OnBottom(M))

KeyOther == Key("x", M)

\* " " in diff mode breaks out of the switch; the diff is fetched again
KeySpaceDiff ==
  /\ diffMode
  /\ Key(" ", OnSpace(M, TRUE))

\* the stage/unstage commands of the entries that have failed so far
Failures(fs) ==
  Cardinality({ i \in 1..Len(fs) : fs[i].stageCmd.state = "exit1" })
    + Cardinality({ i \in 1..Len(fs) : fs[i].unstageCmd.state = "exit1" })

\* " " on the list runs the stored command of the entry and flips its status
KeySpace ==
  /\ Running
  /\ ~diffMode
  /\ msg' = " "
  /\ \E ok \in IF Failures(files) < MaxFailures THEN BOOLEAN ELSE {TRUE} :
       LET f == files[cursor + 1]
           res == RunResult(ToggleCmd(f), ok)
       IN  /\ Render(Refresh(OnSpace(M, ok), TRUE))
           /\ ran' = <<[args |-> ToggleCmd(f).args, result |-> res]>>
           /\ repoLast' = IF res = "exit0"
                            THEN [repoLast EXCEPT ![cursor + 1] = ToggleCmd(f).args[2]]
                            ELSE repoLast

\* "ctrl+c" and "q" are one case of the switch; msg records it as "q".  Update
\* returns at once with tea.Quit: no diff refresh
KeyQuit ==
  /\ Running
  /\ msg' = "q"
  /\ quitting' = TRUE
  /\ pc' = "quit"
  /\ ran' = <<>>
  /\ UNCHANGED <<exitCode, stdout, statusOut, env, files, cursor, diffMode,
                 diffContent, scrollOffset, viewportHeight, repoLast>>

\* the loop takes the QuitMsg: Program.Run returns no error and main returns
QuitMsg ==
  /\ pc = "quit"
  /\ msg' = "QuitMsg"
  /\ Exit(0, "")
  /\ ran' = <<>>
  /\ UNCHANGED <<statusOut, env, files, cursor, quitting, diffMode, diffContent,
                 scrollOffset, viewportHeight, repoLast>>

WindowSize ==
  /\ Running
  /\ msg' = "resize"
  /\ \E height \in env.heights : Render(OnWindowSize(M, height))
  /\ ran' = <<>>
  /\ UNCHANGED repoLast

Next ==
  \/ Main
  \/ KeyUp
  \/ KeyDown
  \/ KeyPgDown
  \/ KeyPgUp
  \/ KeySpace
  \/ KeySpaceDiff
  \/ KeyD
  \/ KeyTop
  \/ KeyBottom
  \/ KeyOther
  \/ KeyQuit
  \/ QuitMsg
  \/ WindowSize

Spec == Init /\ [][Next]_vars

\* the loader alone, on every status code
InitLoad == InitWith(LoadOutputs, Envs)

NextLoad == Main

SpecLoad == InitLoad /\ [][NextLoad]_vars

\* the whole program on one entry with a long diff and a tall window
InitPage == InitWith(PageOutputs, PageEnvs)

SpecPage == InitPage /\ [][Next]_vars

\* the whole program on one entry, with messages overtaking the QuitMsg
InitQuit == InitWith(QuitOutputs, QuitEnvs)

SpecQuit == InitQuit /\ [][Next]_vars

(***************************************************************************)
(* Properties                                                              *)
(***************************************************************************)
N == Len(files)

\* the entry under the cursor, before and after a step
Cur == files[cursor + 1]

Toggled(f) == f.stageCmd.state # "new" \/ f.unstageCmd.state # "new"

\* a step of the toggle key on the list
ToggleStep == pc = "loop" /\ ~diffMode /\ msg' = " "

\* C1: on the list, "up" at index 0 moves the cursor to N-1 and "down" at N-1
\* moves it to 0 (navigation is circular), for every N >= 1.
C1_CursorWraps ==
  [][ /\ (pc = "loop" /\ ~diffMode /\ msg' = "up")
          => cursor' = (cursor - 1) % N
      /\ (pc = "loop" /\ ~diffMode /\ msg' = "down")
          => cursor' = (cursor + 1) % N ]_vars

\* C2: as long as every command that was started succeeded, a toggled entry is
\* shown Staged exactly when the last command that ran on it was its stage
\* command ("git add").
C2_ShownStagedIffStageRanLast ==
  (pc = "loop" /\ Failures(files) = 0)
    => \A i \in 1..N :
         Toggled(files[i]) => (files[i].status = Staged <=> repoLast[i] = "add")

\* C3: the toggle key maps Staged to Unstaged and Unstaged or PartiallyStaged
\* to Staged, and an entry that was toggled is never PartiallyStaged again.
C3_ToggleMap ==
  [][ /\ ToggleStep =>
           files'[cursor + 1].status = (IF Cur.status = Staged THEN Unstaged ELSE Staged)
      /\ \A i \in 1..Len(files') :
           Toggled(files'[i]) => files'[i].status \in {Staged, Unstaged} ]_vars

\* an entry that was loaded PartiallyStaged was toggled to Staged, to Unstaged
\* and to Staged again
C3_Witness ==
  /\ pc = "loop"
  /\ msg = " "
  /\ \E i \in 1..N :
       /\ files[i].name = <<"b">>
       /\ files[i].stageCmd.state # "new"
       /\ files[i].unstageCmd.state # "new"
       /\ files[i].status = Staged

\* C4: a toggle whose command fails flips the status all the same; the loop
\* goes on in list mode, not quitting, with the cursor and the other entries
\* as they were.
C4_FailedToggleStillFlips ==
  [][ (ToggleStep /\ ran'[1].result # "exit0") =>
        /\ files'[cursor + 1].status = (IF Cur.status = Staged THEN Unstaged ELSE Staged)
        /\ pc' = "loop" /\ exitCode' = -1 /\ stdout' = ""
        /\ ~quitting' /\ ~diffMode'
        /\ cursor' = cursor
        /\ Len(files') = N
        /\ \A j \in 1..N : j # cursor + 1 => files'[j] = files[j] ]_vars

\* the stage command of the second of two entries exited with a failure
C4_Witness ==
  /\ pc = "loop"
  /\ msg = " "
  /\ N = 2 /\ cursor = 1
  /\ ran[1].result = "exit1"
  /\ files[2].status = Staged /\ files[2].stageCmd.state = "exit1"

\* maxScroll = max(0, totalLines - viewportHeight)
MaxScrollOf(totalLines, height) ==
  IF totalLines - height > 0 THEN totalLines - height ELSE 0

InRange(offset, totalLines, height) ==
  0 <= offset /\ offset <= MaxScrollOf(totalLines, height)

Min(a, b) == IF a < b THEN a ELSE b

Max(a, b) == IF a > b THEN a ELSE b

Statuses(fs) == [i \in 1..Len(fs) |-> fs[i].status]

\* C5: in diff mode scrollOffset is within [0, maxScroll] for the current diff
\* text and the current viewport height, whatever events came before.
C5_ScrollWithinMax ==
  (pc = "loop" /\ diffMode)
    => InRange(scrollOffset, SplitLen(diffContent), viewportHeight)

ScrollKeys == {"up", "down", "pgup", "pgdown", "g", "G"}

\* Wherever the loop is alive in diff mode the viewport height is not negative:
\* View panics on a negative one.
LoopViewportNonNegative == (pc = "loop" /\ diffMode) => viewportHeight >= 0

\* "d" with a scrollOffset left from an earlier view made View panic
StaleOffsetPanics ==
  /\ pc = "exit" /\ msg = "d" /\ ~quitting /\ diffMode
  /\ viewportHeight >= 0
  /\ scrollOffset > SplitLen(diffContent)

\* C6: with the diff text and the viewport height staying as they are, a scroll
\* key pressed in diff mode with scrollOffset in [0, max(0, L-H)] leaves it in
\* that range; scrollOffset = 0 is in it, so it holds after any such sequence.
C6_ScrollStaysInRange ==
  [][ ( /\ pc = "loop" /\ diffMode
        /\ msg' \in ScrollKeys
        /\ SplitLen(diffContent') = SplitLen(diffContent)
        /\ InRange(scrollOffset, SplitLen(diffContent), viewportHeight) )
      => ( /\ viewportHeight' = viewportHeight
           /\ InRange(scrollOffset', SplitLen(diffContent'), viewportHeight') )
    ]_vars

\* "G" has scrolled a diff longer than the window to its last page
C6_Witness ==
  /\ pc = "loop" /\ diffMode
  /\ msg = "G"
  /\ viewportHeight > 0
  /\ scrollOffset > 0
  /\ scrollOffset = MaxScrollOf(SplitLen(diffContent), viewportHeight)

\* C7: "d" on the list enters diff mode with the diff of the entry at the
\* cursor and scrollOffset = 0; "d" in diff mode goes back to the list; the
\* cursor and the statuses stay as they are both ways.
C7_DiffKey ==
  [][ /\ (pc = "loop" /\ ~diffMode /\ msg' = "d")
          => /\ diffMode'
             /\ scrollOffset' = 0
             /\ diffContent' \in {getDiff(Cur, TRUE), getDiff(Cur, FALSE)}
             /\ cursor' = cursor
             /\ Statuses(files') = Statuses(files)
      /\ (pc = "loop" /\ diffMode /\ msg' = "d")
          => /\ ~diffMode'
             /\ cursor' = cursor
             /\ Statuses(files') = Statuses(files) ]_vars

\* C8: in diff mode page-down sets scrollOffset to
\* min(maxScroll, scrollOffset + viewportHeight/2) and page-up to
\* max(0, scrollOffset - viewportHeight/2); from 0 with a viewport of 20 and at
\* least 30 lines page-down gives 10.
C8_PageScroll ==
  [][ /\ (pc = "loop" /\ diffMode /\ msg' = "pgdown")
          => LET maxScroll == MaxScrollOf(SplitLen(diffContent), viewportHeight)
             IN  /\ scrollOffset' = Min(maxScroll, scrollOffset + viewportHeight \div 2)
                 /\ scrollOffset' <= maxScroll
                 /\ (scrollOffset = 0 /\ viewportHeight = 20
                       /\ SplitLen(diffContent) >= 30) => scrollOffset' = 10
      /\ (pc = "loop" /\ diffMode /\ msg' = "pgup")
          => /\ scrollOffset' = Max(0, scrollOffset - viewportHeight \div 2)
             /\ scrollOffset' >= 0 ]_vars

\* page-down has moved a 35-line diff in a viewport of 20 from 0 to 10
C8_Witness ==
  /\ pc = "loop" /\ diffMode
  /\ msg = "pgdown"
  /\ viewportHeight = 20
  /\ SplitLen(diffContent) = 35
  /\ scrollOffset = 10

\* the decision table of the Status Interpreter, first matching row
TableRow(x, y) ==
  IF x = "?" /\ y = "?" THEN
    [classification |-> Unstaged, stage |-> "add file", unstage |-> "remove from index"]
  ELSE IF x = "A" /\ y # " " THEN
    [classification |-> PartiallyStaged, stage |-> "add file",
     unstage |-> "remove from index"]
  ELSE IF x # " " /\ y # " " THEN
    [classification |-> PartiallyStaged, stage |-> "add file",
     unstage |-> "revert index to HEAD"]
  ELSE IF x = "A" /\ y = " " THEN
    [classification |-> Staged, stage |-> "add file", unstage |-> "remove from index"]
  ELSE IF x # " " /\ y = " " THEN
    [classification |-> Staged, stage |-> "add file", unstage |-> "revert index to HEAD"]
  ELSE IF x = " " /\ y # " " THEN
    [classification |-> Unstaged, stage |-> "add file", unstage |-> "revert index to HEAD"]
  ELSE
    [classification |-> "none", stage |-> "none", unstage |-> "none"]

\* the collaborator invocation of an action on a path
ActionArgs(action, path) ==
  CASE action = "add file" -> <<"git", "add", path>>
    [] action = "remove from index" -> <<"git", "rm", "--cached", path>>
    [] action = "revert index to HEAD" -> <<"git", "restore", "--staged", path>>
    [] OTHER -> <<>>

\* the status lines that carry an entry
Kept(lines) == SelectSeq(lines, LAMBDA l : Len(l) >= 4)

\* C9: every loaded entry has the classification and the action pair of the
\* first matching table row of its status code; the stage action is "add
\* file"; the unstage action is "remove from index" exactly for "??" and x = 'A'.
C9_StatusTable ==
  pc = "loop" =>
    /\ N = Len(Kept(statusOut))
    /\ \A i \in 1..N :
         LET x == Kept(statusOut)[i][1]
             y == Kept(statusOut)[i][2]
             row == TableRow(x, y)
             f == files[i]
         IN  /\ f.status = row.classification
             /\ f.stageCmd.args = ActionArgs(row.stage, f.name)
             /\ f.unstageCmd.args = ActionArgs(row.unstage, f.name)
             /\ f.stageCmd.args = ActionArgs("add file", f.name)
             /\ (f.unstageCmd.args = ActionArgs("remove from index", f.name))
                  <=> ((x = "?" /\ y = "?") \/ x = "A")
             /\ (f.unstageCmd.args = ActionArgs("revert index to HEAD", f.name))
                  <=> ~((x = "?" /\ y = "?") \/ x = "A")

\* "AM" was loaded as PartiallyStaged with "git rm --cached" to unstage
C9_Witness ==
  /\ pc = "loop"
  /\ statusOut = << Line("A", "M", <<"p">>), <<>> >>
  /\ N = 1
  /\ files[1].status = PartiallyStaged
  /\ files[1].unstageCmd.args = <<"git", "rm", "--cached", <<"p">>>>

\* C10 as stated: the scenario's lines load as four entries classified
\* Unstaged, Staged, Staged, PartiallyStaged.
C10_Scenario ==
  (pc = "loop" /\ statusOut = Fixture)
    => /\ N = 4
       /\ [i \in 1..N |-> files[i].name] = FixtureNames
       /\ Statuses(files) = <<Unstaged, Staged, Staged, PartiallyStaged>>

\* C10 amended: the scenario's lines load as four entries, in the order of the
\* lines, classified Unstaged, Unstaged, Staged, PartiallyStaged.
C10_ScenarioAmended ==
  (pc = "loop" /\ statusOut = Fixture)
    => /\ N = 4
       /\ [i \in 1..N |-> files[i].name] = FixtureNames
       /\ Statuses(files) = <<Unstaged, Unstaged, Staged, PartiallyStaged>>

\* the scenario's lines were loaded
C10_Witness ==
  /\ pc = "loop"
  /\ statusOut = Fixture
  /\ N = 4
  /\ files[2].name = FixtureNames[2]


\* the outcomes of startup, told apart by the commands getGitChanges ran
CheckFailed ==
  /\ ran = <<"rev-parse">>
  /\ pc = "exit" /\ exitCode = 1 /\ stdout = "error"

StatusFailed ==
  /\ ran = <<"rev-parse", "status">>
  /\ pc = "exit" /\ exitCode = 1 /\ stdout = "error"

NothingToStage ==
  /\ ran = <<"rev-parse", "status">>
  /\ Len(Kept(statusOut)) = 0
  /\ pc = "exit" /\ exitCode = 0 /\ stdout = "nochanges"

LoopStarted ==
  /\ ran = <<"rev-parse", "status">>
  /\ Len(Kept(statusOut)) > 0
  /\ pc = "loop" /\ ~diffMode /\ ~quitting /\ cursor = 0
  /\ N = Len(Kept(statusOut))
  /\ \A i \in 1..N :
       LET l == Kept(statusOut)[i]
       IN  /\ files[i].name = TrimSpace(SubSeq(l, 4, Len(l)))
           /\ files[i].status = TableRow(l[1], l[2]).classification

\* C11: startup ends in exactly one of four ways: the repository check fails
\* (error message, non-zero exit); the status query fails (error message,
\* non-zero exit); the status query yields no entry (informational message,
\* exit 0, no loop); otherwise the loop starts on the list with cursor = 0 and
\* the loaded entries.
C11_StartupOutcomes ==
  pc # "start" =>
    /\ CheckFailed \/ StatusFailed \/ NothingToStage \/ LoopStarted
    /\ pc = "loop" <=> LoopStarted

C11_Witness ==
  /\ NothingToStage
  /\ Len(statusOut) > 0

\* C12: the quit key sets quitting in one step, from the list and from the
\* diff, and that step invokes no external command; quitting, once set, is
\* never cleared; View returns the empty output whenever quitting is set.
C12_Quit ==
  [][ /\ (Running /\ msg' = "q") => (quitting' /\ ran' = <<>>)
      /\ quitting => quitting'
      /\ quitting' => View(M)' = <<>> ]_vars

\* "q" typed in the diff, then another key handled before the QuitMsg
C12_Witness ==
  /\ pc = "quit" /\ quitting /\ diffMode
  /\ msg = "down" /\ ran # <<>>
  /\ View(M) = <<>>

\* a step of the loop whose diff refresh ran the diff command and it failed
DiffFailedStep ==
  /\ pc = "loop"
  /\ ran' # <<>> /\ ran'[1].args[2] = "d" /\ ran'[1].result = "exit1"

\* what a failed diff leaves besides the continuing loop
DiffFailureFrame ==
  /\ diffContent'.text = <<"Failed to show diff">>
  /\ diffMode' /\ ~quitting'
  /\ Statuses(files') = Statuses(files)
  /\ msg' \notin {"up", "down"} => cursor' = cursor

\* C13: when the diff command fails, the failure message becomes the diff
\* text, the mode stays the diff view, quitting stays false, the cursor and
\* the classifications are as the key left them, and the loop goes on to
\* process later events.
C13_DiffFailureKeepsLoop ==
  [][ DiffFailedStep => (DiffFailureFrame /\ pc' = "loop") ]_vars

\* the two sides git diff compares for the arguments of a diff command
Compared(args) ==
  IF args[3] = "--staged" THEN [old |-> "HEAD", new |-> "index", path |-> args[4]]
  ELSE IF args[3] = "HEAD" THEN [old |-> "HEAD", new |-> "working tree", path |-> args[4]]
  ELSE [old |-> "index", new |-> "working tree", path |-> args[3]]

\* the comparison the design names for a classification
DesignCompared(status, path) ==
  IF status = Staged THEN [old |-> "HEAD", new |-> "index", path |-> path]
  ELSE [old |-> "HEAD", new |-> "working tree", path |-> path]

\* C14: the diff shown for an entry compares the index against HEAD when the
\* entry is Staged and the working tree against HEAD when it is Unstaged or
\* PartiallyStaged, so the entry asks for the same comparison as Unstaged and
\* as PartiallyStaged.
C14_DiffComparison ==
  (pc = "loop" /\ diffMode /\ diffContent.text # <<"Failed to show diff">>)
    => /\ Compared(diffContent.text) = DesignCompared(Cur.status, Cur.name)
       /\ DiffArgs([Cur EXCEPT !.status = Unstaged])
            = DiffArgs([Cur EXCEPT !.status = PartiallyStaged])

\* C15: wherever Update can be called, the cursor is an index of the entries:
\* 0 <= cursor < N.
C15_CursorInRange ==
  (pc = "loop" \/ pc = "quit") => (0 <= cursor /\ cursor < N)

\* "down" was the last key and the cursor is on the last of two entries
C15_Witness ==
  /\ pc = "loop" /\ msg = "down"
  /\ N = 2 /\ cursor = N - 1

\* the diff on screen after the step is the one of the entry under the cursor
Refetched == diffContent' \in { getDiff(files'[cursor' + 1], ok) : ok \in BOOLEAN }

\* C16: in the diff view, "up" with scrollOffset > 0 scrolls up by one;
\* with scrollOffset = 0 it moves the cursor to (cursor - 1) mod N and shows
\* that entry's diff from scrollOffset 0.  "down" with scrollOffset < maxScroll
\* scrolls down by one; with scrollOffset = maxScroll it moves the cursor to
\* (cursor + 1) mod N and shows that entry's diff from scrollOffset 0.
C16_DiffUpDown ==
  [][ (pc = "loop" /\ diffMode) =>
        /\ (msg' = "up" /\ scrollOffset > 0)
             => (scrollOffset' = scrollOffset - 1 /\ cursor' = cursor)
        /\ (msg' = "up" /\ scrollOffset = 0)
             => (cursor' = (cursor - 1) % N /\ scrollOffset' = 0 /\ Refetched)
        /\ (msg' = "down" /\ scrollOffset < getMaxScroll(M))
             => (scrollOffset' = scrollOffset + 1 /\ cursor' = cursor)
        /\ (msg' = "down" /\ scrollOffset = getMaxScroll(M))
             => (cursor' = (cursor + 1) % N /\ scrollOffset' = 0 /\ Refetched) ]_vars

\* C17: after every event handled in the diff view, the diff text is what
\* getDiff returns for the entry under the cursor with its classification at
\* that moment; when the event moved the cursor the view starts at
\* scrollOffset 0; an event that only scrolled keeps the scrollOffset the key
\* computed.
C17_DiffIsOfCursorEntry ==
  [][ (Running /\ diffMode') =>
        /\ diffContent' \in { getDiff(files'[cursor' + 1], ok) : ok \in BOOLEAN }
        /\ (diffMode /\ cursor' # cursor) => scrollOffset' = 0
        /\ (diffMode /\ cursor' = cursor) =>
             /\ (msg' = "up" /\ scrollOffset > 0) => scrollOffset' = scrollOffset - 1
             /\ (msg' = "down" /\ scrollOffset < getMaxScroll(M))
                  => scrollOffset' = scrollOffset + 1
             /\ msg' = "g" => scrollOffset' = 0
             /\ msg' = "G" => scrollOffset' = getMaxScroll(M) ]_vars

\* "down" at the end of the first entry's diff moved to the second entry,
\* whose diff is on screen from its top
C17_Witness ==
  /\ pc = "loop" /\ diffMode /\ msg = "down"
  /\ N = 2 /\ cursor = 1 /\ scrollOffset = 0
  /\ files[1].status # files[2].status
  /\ diffContent = getDiff(files[2], TRUE)
  /\ SplitLen(diffContent) > viewportHeight

\* C18: " " in the diff view runs no stage or unstage command and changes no
\* classification, nor the cursor, the mode or scrollOffset; "pgup",
\* "pgdown", "g" and "G" on the list change none of cursor, mode,
\* scrollOffset and classifications.
C18_GatedKeys ==
  [][ /\ (Running /\ diffMode /\ msg' = " ") =>
           /\ \A i \in 1..Len(ran') : ran'[i].args[2] = "d"
           /\ repoLast' = repoLast
           /\ files' = files
           /\ cursor' = cursor /\ diffMode' /\ scrollOffset' = scrollOffset
      /\ (Running /\ ~diffMode /\ msg' \in {"pgup", "pgdown", "g", "G"}) =>
           /\ ran' = <<>>
           /\ files' = files
           /\ cursor' = cursor /\ ~diffMode' /\ scrollOffset' = scrollOffset ]_vars

\* " " was typed in the diff view of a second entry scrolled down
C18_Witness ==
  /\ pc = "loop" /\ diffMode /\ msg = " "
  /\ cursor = 1 /\ scrollOffset > 0
  /\ ~Toggled(Cur)

\* a scroll key was typed on the list while scrollOffset was left above 0
C18_WitnessList ==
  /\ pc = "loop" /\ ~diffMode /\ msg = "g"
  /\ scrollOffset > 0

\* C19: the entries keep their number, order, names and stage and unstage
\* commands as loaded; the toggle changes the classification of the entry
\* under the cursor only; no other event changes a classification.
C19_EntriesFrame ==
  [][ /\ (pc = "start" /\ pc' = "loop") =>
           /\ Len(files') = Len(Kept(statusOut))
           /\ \A i \in 1..Len(files') :
                files'[i].name = TrimSpace(SubSeq(Kept(statusOut)[i], 4,
                                                  Len(Kept(statusOut)[i])))
      /\ (Running /\ (msg' # " " \/ diffMode)) => files' = files
      /\ (Running /\ msg' = " " /\ ~diffMode) =>
           /\ Len(files') = N
           /\ \A i \in 1..N : i # cursor + 1 => files'[i] = files[i]
           /\ files'[cursor + 1].name = Cur.name
           /\ files'[cursor + 1].stageCmd.args = Cur.stageCmd.args
           /\ files'[cursor + 1].unstageCmd.args = Cur.unstageCmd.args ]_vars

\* the second of two entries was toggled; the first never was
C19_Witness ==
  /\ pc = "loop" /\ msg = " " /\ N = 2 /\ cursor = 1
  /\ Toggled(files[2]) /\ ~Toggled(files[1])
  /\ files[2].status # TableRow(Kept(statusOut)[2][1], Kept(statusOut)[2][2]).classification

\* C20: a resize sets viewportHeight to the terminal height less N + 1 and
\* leaves cursor, mode, scrollOffset, diff text, quitting and classifications
\* as they were, and it invokes no external command.
C20_Resize ==
  [][ (Running /\ msg' = "resize") =>
        /\ viewportHeight' \in { h - N - 1 : h \in env.heights }
        /\ cursor' = cursor /\ diffMode' = diffMode /\ scrollOffset' = scrollOffset
        /\ diffContent' = diffContent /\ quitting' = quitting
        /\ files' = files
        /\ ran' = <<>> ]_vars

\* the window was resized while a diff was on screen, scrolled down
C20_Witness ==
  /\ pc = "loop" /\ msg = "resize" /\ diffMode
  /\ scrollOffset > 0 /\ N = 2
  /\ viewportHeight = 6 - N - 1

\* C21: in every state Update returns with quitting unset and the diff view
\* on, the slice View takes is within the lines of the diff:
\* 0 <= scrollOffset <= min(scrollOffset + viewportHeight, totalLines).
C21_SliceBoundsValid ==
  (pc # "start" /\ ~quitting /\ diffMode)
    => /\ 0 <= scrollOffset
       /\ scrollOffset <= Min(scrollOffset + viewportHeight, SplitLen(diffContent))

\* the arguments of a command that changes the index
Mutating(args) == args[2] \in {"add", "rm", "restore"}

\* the stored commands of entry i that the step started
StartedBy(i) ==
  (IF files'[i].stageCmd.state # files[i].stageCmd.state THEN {"stage"} ELSE {})
    \cup (IF files'[i].unstageCmd.state # files[i].unstageCmd.state
            THEN {"unstage"} ELSE {})

\* C22: a stage or unstage command is invoked only by the toggle key on the
\* list, at most one per event and only for the entry under the cursor; no
\* other event on the list, and no event at all in the diff view, invokes one.
C22_MutatingOnlyByToggle ==
  [][ Running =>
        /\ (msg' # " " \/ diffMode) =>
             /\ \A i \in 1..Len(ran') : ~Mutating(ran'[i].args)
             /\ files' = files
             /\ repoLast' = repoLast
        /\ (msg' = " " /\ ~diffMode) =>
             /\ Len(ran') = 1
             /\ ran'[1].args \in {Cur.stageCmd.args, Cur.unstageCmd.args}
             /\ \A i \in 1..N : i # cursor + 1 =>
                  (StartedBy(i) = {} /\ repoLast'[i] = repoLast[i])
             /\ Cardinality(StartedBy(cursor + 1)) <= 1 ]_vars

\* the toggle on the second of two entries ran its stage command; no command
\* of the first entry was ever started
C22_Witness ==
  /\ pc = "loop" /\ msg = " " /\ N = 2 /\ cursor = 1
  /\ ran = <<[args |-> files[2].stageCmd.args, result |-> "exit0"]>>
  /\ repoLast = <<"none", "add">>
  /\ ~Toggled(files[1])
====
